---- MODULE Spec2Model ----
(***************************************************************************)
(* Player Wellness Registration (src/main.py): the database helpers        *)
(* connect_to_mongodb, insert_data and get_player_ids, and the two forms   *)
(* pre_training_tab and post_training_tab that main() runs on every        *)
(* Streamlit script run.                                                   *)
(*                                                                         *)
(* Python strings that the code slices or formats (player identifiers,     *)
(* session identifiers, dates) are sequences of one-character strings.     *)
(* An optional value is a record [t, v]: t is the Python type name and v   *)
(* the value (a filler of the same sort when t = "NoneType").              *)
(***************************************************************************)
EXTENDS Integers, Sequences, FiniteSets, TLC

VARIABLES
    secrets,        \* st.secrets: section name -> set of keys present
    roster,         \* the documents of the remote "roster" collection
    db,             \* remote collections written to: name -> player_id values stored
    session_state,  \* st.session_state.session_id ("" until a tab has set it)
    pc,             \* where control is: "idle", or the step of main() under way
    button,         \* the submit button pressed for the current script run
    submission,     \* the steps insert_data has taken in the current script run
    last            \* what the most recent call did (its result and its steps)

vars == <<secrets, roster, db, session_state, pc, button, submission, last>>

----------------------------------------------------------------------------
(* Bounds of the model *)

MaxRoster == 2

----------------------------------------------------------------------------
(* Python built-ins *)

Digit == <<"0", "1", "2", "3", "4", "5", "6", "7", "8", "9">>

RECURSIVE Str(_)
\* str(n) of a non-negative int
Str(n) == IF n < 10 THEN <<Digit[n + 1]>> ELSE Str(n \div 10) \o <<Digit[(n % 10) + 1]>>

\* str(x) of a float that holds a whole number: pandas stores an int column
\* with a missing value as float64
StrFloat(n) == Str(n) \o <<".", "0">>

StrNone == <<"N", "o", "n", "e">>
StrNaN  == <<"n", "a", "n">>

\* s[:k]
Slice(s, k) == SubSeq(s, 1, IF Len(s) < k THEN Len(s) ELSE k)

RECURSIVE Pad(_, _)
\* zero-padded decimal of width w, as %Y, %m and %d produce
Pad(n, w) == IF w = 0 THEN <<>> ELSE Pad(n \div 10, w - 1) \o <<Digit[(n % 10) + 1]>>

\* date.strftime('%Y%m%d') of a date <<year, month, day>>
strftime_Ymd(d) == Pad(d[1], 4) \o Pad(d[2], 2) \o Pad(d[3], 2)

\* datetime.combine(d, datetime.min.time()).isoformat()
isoformat(d) ==
    Pad(d[1], 4) \o <<"-">> \o Pad(d[2], 2) \o <<"-">> \o Pad(d[3], 2)
        \o <<"T", "0", "0", ":", "0", "0", ":", "0", "0">>

IsDigits(s) == Len(s) > 0 /\ \A i \in 1..Len(s) : \E k \in 1..10 : Digit[k] = s[i]

DigitValue(c) == (CHOOSE k \in 1..10 : Digit[k] = c) - 1

RECURSIVE ParseNat(_)
ParseNat(s) ==
    IF Len(s) = 0 THEN 0
    ELSE 10 * ParseNat(SubSeq(s, 1, Len(s) - 1)) + DigitValue(s[Len(s)])

\* int(x) that turns a missing value into 0 instead of raising
int_lenient(x) ==
    IF x.t = "NoneType" THEN [exc |-> "none", v |-> 0]
    ELSE IF IsDigits(x.v) THEN [exc |-> "none", v |-> ParseNat(x.v)]
    ELSE [exc |-> "ValueError", v |-> 0]

\* int(x) and np.int32(x) of an optional string: the number, or the exception
\* raised (TypeError for None, ValueError for text that is no integer literal)
int(x) ==
    IF x.t = "NoneType" THEN [exc |-> "TypeError", v |-> 0]
    ELSE IF IsDigits(x.v) THEN [exc |-> "none", v |-> ParseNat(x.v)]
    ELSE [exc |-> "ValueError", v |-> 0]

\* str(x) of an optional string
str(x) == IF x.t = "NoneType" THEN StrNone ELSE x.v

None == [t |-> "NoneType", v |-> <<>>]
PyStr(s) == [t |-> "str", v |-> s]
NoneInt == [t |-> "NoneType", v |-> 0]
PyInt(n) == [t |-> "int", v |-> n]

----------------------------------------------------------------------------
(* connect_to_mongodb *)

required_secrets == <<"mongo_username", "mongo_password", "mongo_cluster_url", "database_name">>

\* What the remote does to one connection attempt: MongoClient(...) may raise
\* (a bad URI, a failed SRV lookup), server_info() may time out or raise.
NetOutcomes == {"ok", "client_error", "timeout", "probe_error"}

Event(e, c) == [ev |-> e, coll |-> c]

\* The first required secret that is absent, in the order the loop tests them
FirstMissing(section) ==
    required_secrets[CHOOSE i \in 1..Len(required_secrets) :
        /\ required_secrets[i] \notin section
        /\ \A j \in 1..(i - 1) : required_secrets[j] \in section]

\* connect_to_mongodb with the client created and probed before the secrets
\* are validated
connect_probe_first(collection_name, sec, net) ==
    LET probe == <<Event("connect_to_mongodb", collection_name),
                   Event("MongoClient", collection_name),
                   Event("server_info", collection_name)>>
    IN  IF "MongoDB" \in DOMAIN sec /\ \A i \in 1..Len(required_secrets) :
                                            required_secrets[i] \in sec["MongoDB"]
        THEN [ret |-> IF net = "ok" THEN "handle" ELSE "None", coll |-> collection_name,
              caught |-> IF net = "ok" THEN "none" ELSE "Exception",
              missing |-> "", notice |-> net # "ok", steps |-> probe]
        ELSE [ret |-> "None", coll |-> collection_name, caught |-> "KeyError",
              missing |-> IF "MongoDB" \in DOMAIN sec
                          THEN FirstMissing(sec["MongoDB"]) ELSE "MongoDB",
              notice |-> TRUE, steps |-> probe]

\* connect_to_mongodb(collection_name): ret is the collection handle or "None";
\* caught is the except clause taken, missing the key the KeyError names,
\* steps the calls made in order. Without a MongoDB section the lookup
\* st.secrets["MongoDB"] of the first test raises the KeyError.
connect_to_mongodb(collection_name, sec, net) ==
    LET call == <<Event("connect_to_mongodb", collection_name)>>
        failed(clause, key, steps) ==
            [ret |-> "None", coll |-> collection_name, caught |-> clause,
             missing |-> key, notice |-> TRUE, steps |-> call \o steps]
    IN  IF "MongoDB" \notin DOMAIN sec
        THEN failed("KeyError", "MongoDB", <<>>)
        ELSE IF \E i \in 1..Len(required_secrets) : required_secrets[i] \notin sec["MongoDB"]
        THEN failed("KeyError", FirstMissing(sec["MongoDB"]), <<>>)
        ELSE IF net = "client_error"
        THEN failed("Exception", "", <<Event("MongoClient", collection_name)>>)
        ELSE IF net = "timeout"
        THEN failed("ServerSelectionTimeoutError", "",
                    <<Event("MongoClient", collection_name), Event("server_info", collection_name)>>)
        ELSE IF net = "probe_error"
        THEN failed("Exception", "",
                    <<Event("MongoClient", collection_name), Event("server_info", collection_name)>>)
        ELSE [ret |-> "handle", coll |-> collection_name, caught |-> "none",
              missing |-> "", notice |-> FALSE,
              steps |-> call \o <<Event("MongoClient", collection_name),
                                  Event("server_info", collection_name)>>]

----------------------------------------------------------------------------
(* insert_data *)

\* What collection.insert_one does: the write is acknowledged or not, or the
\* driver raises. The driver and the remote decide; every outcome is admitted
\* for every document.
InsertOutcomes ==
    {"acknowledged", "unacknowledged", "DuplicateKeyError", "OperationFailure",
     "InvalidDocument", "other"}

\* Codes an OperationFailure of the remote may carry
OperationCodes == {13, 121}

\* errors.DuplicateKeyError(message, error=e): the handler passes the message
\* positionally and the caught error under the keyword error. Whether the
\* installed driver's constructor accepts that keyword beside a positional
\* first argument is the driver's matter: "accepts" builds the
\* DuplicateKeyError, "rejects" makes the call itself raise TypeError.
ConstructorOutcomes == {"accepts", "rejects"}

\* not data
Falsy(data) == data.type = "NoneType" \/ data.len = 0

\* Python dict of a document
Dict(doc) == [type |-> "dict", len |-> Cardinality(DOMAIN doc), doc |-> doc]

\* insert_data that connects before it validates its arguments
insert_data_connect_first(collection_name, data, sec, env) ==
    LET collection == connect_to_mongodb(collection_name, sec, env.net)
    IN  [returned |-> FALSE, value |-> FALSE,
         raised |-> IF collection_name = "" \/ Falsy(data) \/ data.type # "dict"
                    THEN "ValueError" ELSE "RuntimeError",
         cause |-> "none", code |-> 0, log |-> "none", stored |-> FALSE,
         steps |-> collection.steps]

\* insert_data that reports every completed insert as a success
insert_data_ignore_ack(collection_name, data, sec, env) ==
    LET collection == connect_to_mongodb(collection_name, sec, env.net)
        ok == collection_name # "" /\ ~Falsy(data) /\ data.type = "dict"
                /\ collection.ret = "handle"
                /\ env.ins \in {"acknowledged", "unacknowledged"}
    IN  [returned |-> ok, value |-> ok, raised |-> IF ok THEN "none" ELSE "RuntimeError",
         cause |-> "none", code |-> 0, log |-> "info", stored |-> ok,
         steps |-> IF ok THEN collection.steps \o <<Event("insert_one", collection_name)>>
                   ELSE <<>>]

\* insert_data that tries a second time when the connection or the insert fails
insert_data_retry(collection_name, data, sec, env) ==
    LET collection == connect_to_mongodb(collection_name, sec, env.net)
        once == collection.steps \o
                (IF collection.ret = "handle"
                 THEN <<Event("insert_one", collection_name)>> ELSE <<>>)
        ok == collection.ret = "handle" /\ env.ins \in {"acknowledged", "unacknowledged"}
    IN  [returned |-> ok, value |-> ok /\ env.ins = "acknowledged",
         raised |-> IF ok THEN "none" ELSE "RuntimeError",
         cause |-> "none", code |-> 0, log |-> "info", stored |-> ok,
         steps |-> IF ok THEN once ELSE once \o once]

\* insert_data(collection_name, data). returned: the call returned value;
\* otherwise raised is the class of the exception that reaches the caller,
\* cause its __cause__ (the error it was raised from), code the code it
\* carries. stored: the document is in the remote collection afterwards (an
\* unacknowledged write counts as stored: the remote may have applied it).
insert_data(collection_name, data, sec, env) ==
    LET raise(class, cause, code, level, steps) ==
            [returned |-> FALSE, value |-> FALSE, raised |-> class, cause |-> cause,
             code |-> code, log |-> level, stored |-> FALSE, steps |-> steps]
        return(value, level, steps) ==
            [returned |-> TRUE, value |-> value, raised |-> "none", cause |-> "none",
             code |-> 0, log |-> level, stored |-> TRUE, steps |-> steps]
        collection == connect_to_mongodb(collection_name, sec, env.net)
        inserted == collection.steps \o <<Event("insert_one", collection_name)>>
    IN  IF collection_name = ""
        THEN raise("ValueError", "none", 0, "none", <<>>)
        ELSE IF Falsy(data) \/ data.type # "dict"
        THEN raise("ValueError", "none", 0, "none", <<>>)
        ELSE IF collection.ret = "None"
        THEN \* the ConnectionError is raised inside the try block: the last
             \* clause, except Exception, catches it
             raise("RuntimeError", "ConnectionError", 0, "critical", collection.steps)
        ELSE IF env.ins = "acknowledged"
        THEN return(TRUE, "info", inserted)
        ELSE IF env.ins = "unacknowledged"
        THEN return(FALSE, "warning", inserted)
        ELSE IF env.ins = "DuplicateKeyError"
        THEN IF env.ctor = "accepts"
             THEN raise("DuplicateKeyError", "none", 0, "error", inserted)
             ELSE raise("TypeError", "none", 0, "error", inserted)
        ELSE IF env.ins = "OperationFailure"
        THEN raise("OperationFailure", "none", env.code, "error", inserted)
        ELSE IF env.ins = "InvalidDocument"
        THEN raise("ValueError", "InvalidDocument", 0, "error", inserted)
        ELSE raise("RuntimeError", "Exception", 0, "critical", inserted)

----------------------------------------------------------------------------
(* get_player_ids *)

\* What collection.find() does once connected
FindOutcomes == {"ok", "error"}

HasPlayerId(doc) == "player_id" \in DOMAIN doc

\* df["player_id"].astype(str) of pd.DataFrame(docs), when the column exists:
\* an int column when every document has the field, a float column with NaN
\* for the documents that lack it otherwise
PlayerIdColumn(docs) ==
    IF \A i \in 1..Len(docs) : HasPlayerId(docs[i])
    THEN [i \in 1..Len(docs) |-> Str(docs[i].player_id)]
    ELSE [i \in 1..Len(docs) |->
            IF HasPlayerId(docs[i]) THEN StrFloat(docs[i].player_id) ELSE StrNaN]

\* get_player_ids(): ids is the Series returned; raised the class of an
\* exception leaving the function ("none": the except clause absorbs all)
get_player_ids(sec, net, find, docs) ==
    LET collection == connect_to_mongodb("roster", sec, net)
        found == collection.steps \o <<Event("find", "roster")>>
        absorbed(class, steps) ==
            [ids |-> <<>>, raised |-> "none", caught |-> class, notice |-> TRUE,
             steps |-> steps]
    IN  IF collection.ret = "None"
        THEN absorbed("ConnectionError", collection.steps)
        ELSE IF find = "error"
        THEN absorbed("Exception", found)
        ELSE IF ~(\E i \in 1..Len(docs) : HasPlayerId(docs[i]))
        THEN absorbed("KeyError", found)
        ELSE [ids |-> PlayerIdColumn(docs), raised |-> "none", caught |-> "none",
              notice |-> collection.notice, steps |-> found]

----------------------------------------------------------------------------
(* The state after start-up *)

RequiredSecrets == {required_secrets[i] : i \in 1..Len(required_secrets)}

\* st.secrets with or without its MongoDB section, the section with any of
\* the required keys
SecretsConfigs == UNION {[D -> SUBSET RequiredSecrets] : D \in SUBSET {"MongoDB"}}

\* player_id values roster documents carry
PlayerIdValues == {4, 42, 123}

\* Roster documents: with a player_id, or without the field
RosterDocs == {[player_id |-> n] : n \in PlayerIdValues} \cup {[name |-> "x"]}

Rosters == UNION {[1..n -> RosterDocs] : n \in 0..MaxRoster}

WrittenCollections == {"player_wellness", "player_rpe"}

Init ==
    /\ secrets \in SecretsConfigs
    /\ roster \in Rosters
    /\ db = [c \in WrittenCollections |-> {}]
    /\ session_state = <<>>
    /\ pc = "idle"
    /\ button = "none"
    /\ submission = <<>>
    /\ last = [op |-> "none"]

----------------------------------------------------------------------------
(* The helpers called on their own: one call, then its caller resumes *)

\* The remote's behaviour during one insert_data call: a connection failure,
\* or a connection and one of the insert outcomes
Envs ==
    [net : NetOutcomes \ {"ok"}, ins : {"acknowledged"}, code : {0}, ctor : {"accepts"}]
    \cup [net : {"ok"}, ins : InsertOutcomes \ {"OperationFailure", "DuplicateKeyError"},
          code : {0}, ctor : {"accepts"}]
    \cup [net : {"ok"}, ins : {"OperationFailure"}, code : OperationCodes, ctor : {"accepts"}]
    \cup [net : {"ok"}, ins : {"DuplicateKeyError"}, code : {0}, ctor : ConstructorOutcomes]

CollectionNames == {"", "roster", "player_wellness", "player_rpe"}

\* Arguments a caller may hand to insert_data as data
DataSamples ==
    << [type |-> "NoneType", len |-> 0, doc |-> <<>>],
       [type |-> "dict", len |-> 0, doc |-> <<>>],
       [type |-> "list", len |-> 0, doc |-> <<>>],
       [type |-> "list", len |-> 1, doc |-> <<>>],
       [type |-> "str", len |-> 1, doc |-> <<>>],
       Dict([name |-> "John", score |-> 95]) >>

CallConnect ==
    /\ pc = "idle"
    /\ \E collection_name \in CollectionNames \ {""}, net \in NetOutcomes :
        last' = [op |-> "connect_to_mongodb", net |-> net,
                 r |-> connect_to_mongodb(collection_name, secrets, net)]
    /\ pc' = "returned"
    /\ UNCHANGED <<secrets, roster, db, session_state, button, submission>>

CallInsertData ==
    /\ pc = "idle"
    /\ \E collection_name \in CollectionNames, i \in 1..Len(DataSamples), env \in Envs :
        last' = [op |-> "insert_data", collection_name |-> collection_name,
                 data |-> DataSamples[i], env |-> env,
                 r |-> insert_data(collection_name, DataSamples[i], secrets, env)]
    /\ pc' = "returned"
    /\ UNCHANGED <<secrets, roster, db, session_state, button, submission>>

CallGetPlayerIds ==
    /\ pc = "idle"
    /\ \E net \in NetOutcomes, find \in FindOutcomes :
        last' = [op |-> "get_player_ids", net |-> net, find |-> find,
                 r |-> get_player_ids(secrets, net, find, roster)]
    /\ pc' = "returned"
    /\ UNCHANGED <<secrets, roster, db, session_state, button, submission>>

Resume ==
    /\ pc = "returned"
    /\ pc' = "idle"
    /\ last' = [op |-> "none"]
    /\ UNCHANGED <<secrets, roster, db, session_state, button, submission>>

NextHelpers == CallConnect \/ CallInsertData \/ CallGetPlayerIds \/ Resume

SpecHelpers == Init /\ [][NextHelpers]_vars

----------------------------------------------------------------------------
(* The forms: main() runs both tabs on every script run *)

\* Dates the date inputs may hold
Dates == {<<2024, 6, 1>>, <<2023, 12, 25>>}

\* st.pills over pre_option_map.keys(), default None: nothing, or one option
FeelingOptions == 1..5
Feelings == {NoneInt} \cup {PyInt(k) : k \in FeelingOptions}
FeelingInputs == {f \in Feelings : f.v \in {0, 1, 5}}

\* st.slider(min_value=0.0, max_value=12.0, step=0.5), in tenths of an hour
SliderValues == {5 * k : k \in 0..24}
SleepInputs == {h \in SliderValues : h \in {0, 120}}

\* st.radio over range(1, 11), st.number_input(min_value=0, max_value=120) and
\* st.toggle: the least and the greatest of each
PostInputs ==
    {[rpe_score |-> 1, training_minutes |-> 0, individual_session |-> FALSE],
     [rpe_score |-> 10, training_minutes |-> 120, individual_session |-> TRUE]}

\* st.selectbox(options=..., index=None): nothing, or one of the options
Selectable(options) == {None} \cup {PyStr(options[i]) : i \in 1..Len(options)}

\* The session identifier without zero padding of month and day, and with the
\* whole player identifier
SessionId_unpadded(date, player_id) ==
    Str(date[1]) \o Str(date[2]) \o Str(date[3]) \o <<"U">> \o str(player_id)

\* f"{date.strftime('%Y%m%d')}U{str(player_id)[:2]}"
SessionId(date, player_id) == strftime_Ymd(date) \o <<"U">> \o Slice(str(player_id), 2)

Store(coll, r, player_id) ==
    IF r.stored THEN [db EXCEPT ![coll] = @ \cup {player_id}] ELSE db

\* A user interaction starts a script run; at most one button is pressed
Rerun ==
    /\ pc = "idle"
    /\ \E b \in {"none", "pre", "post"} : button' = b
    /\ pc' = "pre"
    /\ submission' = <<>>
    /\ last' = [op |-> "main"]
    /\ UNCHANGED <<secrets, roster, db, session_state>>

\* A tab up to its submit button: the roster is fetched for the selectbox,
\* the session identifier derived and stored in st.session_state
Render(tab) ==
    \E net \in NetOutcomes, find \in FindOutcomes :
        LET g == get_player_ids(secrets, net, find, roster)
        IN  \E player_id \in Selectable(g.ids), date \in Dates :
                /\ session_state' = SessionId(date, player_id)
                /\ last' = [op |-> tab, pressed |-> FALSE, called |-> FALSE,
                            options |-> g.ids, player_id |-> player_id, date |-> date,
                            session_id |-> SessionId(date, player_id),
                            uncaught |-> "none", success |-> FALSE, steps |-> g.steps]

\* The body of "if st.button(...)" of a tab: uncaught is the class of the
\* exception that leaves the tab, "none" when the tab runs to its end.
\* player_id is int(...) in the pre-training tab and np.int32(...) in the
\* post-training tab; whether the driver can encode the latter is among the
\* outcomes of InsertOutcomes. steps stays the roster fetch of the tab, the
\* steps of insert_data are in r.steps.
Submit(coll, fields, env) ==
    LET player_id == int(last.player_id)
        entry == [player_id |-> player_id.v, session_id |-> last.session_id,
                  date |-> isoformat(last.date), fields |-> fields,
                  timestamp |-> "datetime.now()"]
        r == insert_data(coll, Dict(entry), secrets, env)
    IN  IF player_id.exc # "none"
        THEN /\ last' = [last EXCEPT !.pressed = TRUE, !.uncaught = player_id.exc]
             /\ UNCHANGED <<db, submission>>
        ELSE /\ last' = [op |-> last.op, pressed |-> TRUE, called |-> TRUE,
                         options |-> last.options, player_id |-> last.player_id,
                         date |-> last.date, session_id |-> last.session_id,
                         collection_name |-> coll, entry |-> entry, r |-> r,
                         uncaught |-> r.raised, success |-> r.returned /\ r.value,
                         steps |-> last.steps]
             /\ db' = Store(coll, r, entry.player_id)
             /\ submission' = submission \o r.steps

pre_training_tab ==
    /\ pc = "pre"
    /\ Render("pre_training_tab")
    /\ pc' = "pre_button"
    /\ UNCHANGED <<secrets, roster, db, button, submission>>

pre_training_submit ==
    /\ pc = "pre_button"
    /\ IF button = "pre"
       THEN \E pre_training_feeling \in FeelingInputs, sleep_hours \in SleepInputs, env \in Envs :
                Submit("player_wellness",
                       [feeling |-> pre_training_feeling, sleep_hours |-> sleep_hours], env)
       ELSE UNCHANGED <<db, submission, last>>
    /\ pc' = "pre_done"
    /\ UNCHANGED <<secrets, roster, session_state, button>>

post_training_tab ==
    /\ pc = "post"
    /\ Render("post_training_tab")
    /\ pc' = "post_button"
    /\ UNCHANGED <<secrets, roster, db, button, submission>>

post_training_submit ==
    /\ pc = "post_button"
    /\ IF button = "post"
       THEN \E inputs \in PostInputs, env \in Envs : Submit("player_rpe", inputs, env)
       ELSE UNCHANGED <<db, submission, last>>
    /\ pc' = "post_done"
    /\ UNCHANGED <<secrets, roster, session_state, button>>

\* main() after a tab: an exception that left the tab ends the script run,
\* otherwise the next tab runs (after the last, borg_scale_tab and the end)
main ==
    /\ pc \in {"pre_done", "post_done"}
    /\ pc' = IF pc = "pre_done" /\ last.uncaught = "none" THEN "post" ELSE "idle"
    /\ last' = [op |-> "main"]
    /\ UNCHANGED <<secrets, roster, db, session_state, button, submission>>

Next ==
    \/ Rerun
    \/ pre_training_tab
    \/ pre_training_submit
    \/ post_training_tab
    \/ post_training_submit
    \/ main

Spec == Init /\ [][Next]_vars

----------------------------------------------------------------------------
(* Properties *)

NetworkSteps == {"MongoClient", "server_info"}

Count(steps, e) == Cardinality({i \in 1..Len(steps) : steps[i].ev = e})

\* The call last made was insert_data with a non-empty collection name and a
\* non-empty dict
ValidInsertCall ==
    /\ last.op = "insert_data"
    /\ last.collection_name # ""
    /\ last.data.type = "dict"
    /\ last.data.len > 0

SecretsComplete ==
    "MongoDB" \in DOMAIN secrets /\ RequiredSecrets \subseteq secrets["MongoDB"]

\* C1: when a required secret is absent from the MongoDB section,
\* connect_to_mongodb reports a missing-configuration error (the KeyError
\* clause) that names an absent key - the first absent one in the order
\* tested, so the key itself whenever it is the only one absent -, returns
\* None, and takes no network step (no client creation, no liveness probe).
C1_MissingSecretNamedBeforeNetwork ==
    (/\ last.op = "connect_to_mongodb"
     /\ "MongoDB" \in DOMAIN secrets
     /\ ~(RequiredSecrets \subseteq secrets["MongoDB"]))
    => /\ last.r.caught = "KeyError"
       /\ last.r.ret = "None"
       /\ last.r.notice
       /\ last.r.missing \in RequiredSecrets \ secrets["MongoDB"]
       /\ \A k \in RequiredSecrets :
            (RequiredSecrets \ secrets["MongoDB"] = {k}) => last.r.missing = k
       /\ \A i \in 1..Len(required_secrets) :
            required_secrets[i] = last.r.missing =>
                \A j \in 1..(i - 1) : required_secrets[j] \in secrets["MongoDB"]
       /\ \A i \in 1..Len(last.r.steps) : last.r.steps[i].ev \notin NetworkSteps

\* C1 witness: only database_name, the key tested last, is absent; the call
\* has been made and names it
C1_Witness ==
    /\ last.op = "connect_to_mongodb"
    /\ "MongoDB" \in DOMAIN secrets
    /\ RequiredSecrets \ secrets["MongoDB"] = {"database_name"}
    /\ last.r.missing = "database_name"
    /\ last.r.ret = "None"

\* C2: insert_data with an empty collection name, or with data that is empty
\* or not a dict, raises ValueError (invalid argument) before any connection
\* attempt: connect_to_mongodb is not called, nothing is inserted.
C2_InvalidArgumentBeforeConnect ==
    (/\ last.op = "insert_data"
     /\ \/ last.collection_name = ""
        \/ last.data.type # "dict"
        \/ last.data.len = 0)
    => /\ ~last.r.returned
       /\ last.r.raised = "ValueError"
       /\ last.r.cause = "none"
       /\ last.r.steps = <<>>
       /\ ~last.r.stored

\* C2 witness: insert("player_wellness", {}) has been called and has raised
C2_Witness ==
    /\ last.op = "insert_data"
    /\ last.collection_name = "player_wellness"
    /\ last.data.type = "dict"
    /\ last.data.len = 0
    /\ last.r.raised = "ValueError"
    /\ SecretsComplete
    /\ last.env.net = "ok"

\* C3: with valid arguments and a connection available, insert_data returns
\* True exactly when the remote acknowledges the write; an insert that
\* completes unacknowledged returns False and raises nothing.
C3_TrueIffAcknowledged ==
    (ValidInsertCall /\ SecretsComplete /\ last.env.net = "ok")
    => /\ (last.r.returned /\ last.r.value) <=> last.env.ins = "acknowledged"
       /\ last.env.ins = "unacknowledged" =>
            (last.r.returned /\ ~last.r.value /\ last.r.raised = "none")
       /\ Count(last.r.steps, "insert_one") = 1

\* C3 witness: an unacknowledged write has returned False
C3_Witness ==
    /\ ValidInsertCall
    /\ SecretsComplete
    /\ last.env.net = "ok"
    /\ last.env.ins = "unacknowledged"
    /\ last.r.returned
    /\ ~last.r.value

\* C4 (as claimed): when the arguments are valid and connect_to_mongodb
\* yields no handle, the error reaching the caller of insert_data is the
\* ConnectionError raised at the handle check, not the class of the
\* unexpected-write error, and no insert is attempted.
C4_ConnectionErrorReachesCaller ==
    (ValidInsertCall /\ ~(SecretsComplete /\ last.env.net = "ok"))
    => /\ ~last.r.returned
       /\ last.r.raised = "ConnectionError"
       /\ Count(last.r.steps, "insert_one") = 0

\* C5 (as claimed): a failed insert reaches the caller as an error of the
\* matching kind - DuplicateKeyError, OperationFailure with the remote code,
\* InvalidDocument, and the unexpected-write error (RuntimeError) for any
\* other failure -, never as the ValueError of an invalid argument and never
\* as a return value.
C5_FailuresDistinct ==
    (ValidInsertCall /\ SecretsComplete /\ last.env.net = "ok"
        /\ last.env.ins \notin {"acknowledged", "unacknowledged"})
    => /\ ~last.r.returned
       /\ last.env.ins = "DuplicateKeyError" => last.r.raised = "DuplicateKeyError"
       /\ last.env.ins = "OperationFailure" =>
            (last.r.raised = "OperationFailure" /\ last.r.code = last.env.code)
       /\ last.env.ins = "InvalidDocument" => last.r.raised = "InvalidDocument"
       /\ last.env.ins = "other" => last.r.raised = "RuntimeError"
       /\ last.r.raised # "ValueError"

\* The roster as get_player_ids should report it: one decimal string per document
IsIdOf(s, doc) == IsDigits(s) /\ ParseNat(s) = doc.player_id

\* C6 (as claimed): get_player_ids never raises; on every failure path
\* (missing configuration, timeout, other connection error, fetch error, no
\* documents, documents lacking player_id) it returns an empty sequence; with
\* the roster reachable and every document carrying player_id it returns
\* exactly one string-form player_id per document.
C6_EmptyOnFailureElseAllIds ==
    last.op = "get_player_ids"
    => /\ last.r.raised = "none"
       /\ (\/ ~SecretsComplete
           \/ last.net # "ok"
           \/ last.find # "ok"
           \/ Len(roster) = 0
           \/ \E i \in 1..Len(roster) : ~HasPlayerId(roster[i]))
          => last.r.ids = <<>>
       /\ (/\ SecretsComplete
           /\ last.net = "ok"
           /\ last.find = "ok"
           /\ Len(roster) > 0
           /\ \A i \in 1..Len(roster) : HasPlayerId(roster[i]))
          => /\ Len(last.r.ids) = Len(roster)
             /\ \A i \in 1..Len(roster) : IsIdOf(last.r.ids[i], roster[i])

\* C7 (as claimed): every record handed to insert_data("player_wellness", ...)
\* has an integer feeling in 1..5 and sleep_hours in [0.0, 12.0].
C7_WellnessRecordInRange ==
    (last.op = "pre_training_tab" /\ last.called)
    => /\ last.entry.fields.feeling.t = "int"
       /\ last.entry.fields.feeling.v \in 1..5
       /\ last.entry.fields.sleep_hours \in 0..120

RosterIds == {roster[i].player_id : i \in {j \in 1..Len(roster) : HasPlayerId(roster[j])}}

\* C8: every player_id stored in player_wellness or player_rpe is a player_id
\* of the roster, and is one of the options fetched for the form that
\* submitted it; a submission with no player selected (the only choice when
\* the roster fetch failed) never reaches insert_data and stores nothing.
C8_StoredPlayerIdsFromRoster ==
    /\ \A c \in WrittenCollections : db[c] \subseteq RosterIds
    /\ (last.op \in {"pre_training_tab", "post_training_tab"} /\ last.called)
       => /\ \E i \in 1..Len(last.options) : IsIdOf(last.options[i], last.entry)
          /\ last.entry.player_id \in RosterIds
    /\ (/\ last.op \in {"pre_training_tab", "post_training_tab"}
        /\ last.pressed
        /\ (last.player_id.t = "NoneType" \/ last.options = <<>>))
       => /\ ~last.called
          /\ last.uncaught = "TypeError"
          /\ submission = <<>>

\* C8 witness: the pre-training form has just stored a record for player 123
\* of a two-player roster
C8_Witness ==
    /\ last.op = "pre_training_tab"
    /\ last.called
    /\ last.r.stored
    /\ last.entry.player_id = 123
    /\ db["player_wellness"] = {123}
    /\ Cardinality(RosterIds) = 2

\* C9: the session_id of a submitted record is the selected date as YYYYMMDD,
\* then "U", then the first two characters of the selected player_id's string
\* form, unpadded; it is the value derived in the submitting tab.
C9_SessionIdDerivation ==
    (last.op \in {"pre_training_tab", "post_training_tab"} /\ last.called)
    => LET s == last.entry.session_id
           p == last.player_id.v
           d == last.date
       IN  /\ last.player_id.t = "str"
           /\ Len(s) = 9 + (IF Len(p) < 2 THEN Len(p) ELSE 2)
           /\ IsDigits(SubSeq(s, 1, 8))
           /\ ParseNat(SubSeq(s, 1, 4)) = d[1]
           /\ ParseNat(SubSeq(s, 5, 6)) = d[2]
           /\ ParseNat(SubSeq(s, 7, 8)) = d[3]
           /\ s[9] = "U"
           /\ \A i \in 10..Len(s) : s[i] = p[i - 9]
           /\ (d = <<2024, 6, 1>> /\ p = <<"4", "2">>)
                => s = <<"2", "0", "2", "4", "0", "6", "0", "1", "U", "4", "2">>
           /\ (d = <<2024, 6, 1>> /\ p = <<"4">>)
                => s = <<"2", "0", "2", "4", "0", "6", "0", "1", "U", "4">>
           /\ s = last.session_id

\* C9 witness: the post-training form has submitted a record for player "123"
\* on 2024-06-01, whose identifier is cut to "12"
C9_Witness ==
    /\ last.op = "post_training_tab"
    /\ last.called
    /\ last.date = <<2024, 6, 1>>
    /\ last.player_id = PyStr(<<"1", "2", "3">>)
    /\ last.entry.session_id = <<"2", "0", "2", "4", "0", "6", "0", "1", "U", "1", "2">>

Target == IF button = "pre" THEN "player_wellness" ELSE "player_rpe"

\* C10: in one script run the pressed button leads to at most one
\* connect_to_mongodb for its collection and at most one insert_one, the
\* insert after the connect; a failure of either is not followed by a second
\* attempt, and without a pressed button there is neither.
C10_OneConnectThenInsert ==
    /\ button = "none" => submission = <<>>
    /\ \A i \in 1..Len(submission) : submission[i].coll = Target
    /\ Count(submission, "connect_to_mongodb") <= 1
    /\ Count(submission, "insert_one") <= 1
    /\ \A j \in 1..Len(submission) :
        submission[j].ev = "insert_one" =>
            \E i \in 1..(j - 1) : submission[i].ev = "connect_to_mongodb"
    /\ (last.op \in {"pre_training_tab", "post_training_tab"} /\ last.called)
       => /\ Count(submission, "connect_to_mongodb") = 1
          /\ last.r.steps = submission

\* C10 witness: a submission whose insert failed, the script run over
C10_Witness ==
    /\ last.op = "pre_training_tab"
    /\ last.called
    /\ ~last.r.returned
    /\ Count(submission, "insert_one") = 1
    /\ Count(submission, "connect_to_mongodb") = 1

====
